---- MODULE Spec2Model ----
(***************************************************************************)
(* A model of the 13-week cash flow forecasting engine of src/Wcf.py       *)
(* (class CashFlowForecaster).                                             *)
(*                                                                         *)
(* Amounts.  The program computes in IEEE doubles.  The model computes     *)
(* the same expressions exactly: an amount is either NaN or a fixed-point  *)
(* number  h + l/Scale + b/(Scale*GrowthDen)  in dollars, held as three    *)
(* digits so that no intermediate product leaves TLC's 32-bit integers.    *)
(* Every denominator the program's constants and the bounded inputs can    *)
(* produce divides Scale*GrowthDen; a division that would not be exact     *)
(* yields Inexact, which ModelArithmeticExact shows is never produced.     *)
(* Rounding of doubles is not modelled.  NaN is modelled: it is what the   *)
(* pandas mean of no rows is, and the source tests for it (pd.isna).       *)
(*                                                                         *)
(* Dates.  A date is its proleptic Gregorian ordinal (date.toordinal()),   *)
(* at midnight; times of day are not modelled.                             *)
(***************************************************************************)
EXTENDS Integers, Sequences, FiniteSets, TLC

(***************************************************************************)
(* Exact amounts                                                           *)
(***************************************************************************)

\* 1 + 0.05 * (days / 7) / 52  =  (GrowthDen + days) / GrowthDen
GrowthDen == 7 * 52 * 20

\* Denominators other than GrowthDen: a mean of up to 4 rows, divided by 4
\* (48); scenario multipliers, the COGS margin and the collection pattern
\* in lowest terms (2000); the sensitivity elasticities (100).
Scale == 48 * 2000 * 100

NaN == [kind |-> "nan", h |-> 0, l |-> 0, b |-> 0]

Inexact == [kind |-> "inexact", h |-> 0, l |-> 0, b |-> 0]

\* The number h + l/Scale + b/(Scale*GrowthDen), digits brought into range.
Norm(h, l, b) ==
    LET l1 == l + (b \div GrowthDen)
    IN  [kind |-> "num", h |-> h + (l1 \div Scale), l |-> l1 % Scale, b |-> b % GrowthDen]

Num(n) == [kind |-> "num", h |-> n, l |-> 0, b |-> 0]

IsNum(x) == x.kind = "num"

pd_isna(x) == x.kind = "nan"

Poison(x, y) ==
    IF x.kind = "inexact" \/ y.kind = "inexact" THEN Inexact ELSE NaN

Add(x, y) ==
    IF IsNum(x) /\ IsNum(y) THEN Norm(x.h + y.h, x.l + y.l, x.b + y.b) ELSE Poison(x, y)

Sub(x, y) ==
    IF IsNum(x) /\ IsNum(y) THEN Norm(x.h - y.h, x.l - y.l, x.b - y.b) ELSE Poison(x, y)

\* x * p for an integer 0 <= p <= 100
MulSmall(x, p) ==
    IF IsNum(x) THEN Norm(x.h * p, x.l * p, x.b * p) ELSE x

\* x * n for any integer n >= 0, two decimal digits of n at a time
RECURSIVE MulInt(_, _)
MulInt(x, n) ==
    IF n <= 100 THEN MulSmall(x, n)
    ELSE Add(MulSmall(MulInt(x, n \div 100), 100), MulSmall(x, n % 100))

\* x / q for an integer 1 <= q <= 100: long division, digit by digit
DivSmall(x, q) ==
    IF ~IsNum(x) THEN x
    ELSE LET l1 == (x.h % q) * Scale + x.l
             b1 == (l1 % q) * GrowthDen + x.b
         IN  IF b1 % q # 0 THEN Inexact
             ELSE Norm(x.h \div q, l1 \div q, b1 \div q)

\* x * p / q for integers p >= 0 and 1 <= q <= 100
Times(x, p, q) == DivSmall(MulInt(x, p), q)

\* x / GrowthDen  (GrowthDen = 80 * 91)
DivGrowthDen(x) == DivSmall(DivSmall(x, 80), 91)

\* IEEE comparisons: every comparison with NaN is false
Lt(x, y) ==
    /\ IsNum(x) /\ IsNum(y)
    /\ \/ x.h < y.h
       \/ x.h = y.h /\ x.l < y.l
       \/ x.h = y.h /\ x.l = y.l /\ x.b < y.b

Ge(x, y) == IsNum(x) /\ IsNum(y) /\ ~Lt(x, y)

Gt(x, y) == Lt(y, x)

\* x == 0.0
IsZero(x) == IsNum(x) /\ x.h = 0 /\ x.l = 0 /\ x.b = 0

(***************************************************************************)
(* Calendar: datetime.date ordinals, weekday, ISO week                     *)
(***************************************************************************)

\* datetime.date.weekday(): Monday = 0
weekday(d) == (d + 6) % 7

\* days before January 1st of year
days_before_year(year) ==
    LET y == year - 1
    IN  y * 365 + (y \div 4) - (y \div 100) + (y \div 400)

\* the year of an ordinal
year_of(d) ==
    LET y0 == ((d - 1) * 400) \div 146097 + 1
    IN  IF days_before_year(y0) >= d THEN y0 - 1
        ELSE IF days_before_year(y0 + 1) < d THEN y0 + 1
        ELSE y0

\* the Monday starting ISO week 1 of year
iso_week1_monday(year) ==
    LET first_day == days_before_year(year) + 1
        first_weekday == weekday(first_day)
        week1_monday == first_day - first_weekday
    IN  IF first_weekday > 3 THEN week1_monday + 7 ELSE week1_monday

\* date.isocalendar()[1], and Series.dt.isocalendar().week
iso_week(d) ==
    LET year == year_of(d)
        week == (d - iso_week1_monday(year)) \div 7
    IN  IF week < 0 THEN (d - iso_week1_monday(year - 1)) \div 7 + 1
        ELSE IF week >= 52 /\ d >= iso_week1_monday(year + 1) THEN 1
        ELSE week + 1

\* Series.dt.to_period('W'): the week (Monday to Sunday) holding d, named by
\* its Monday
to_period_W(d) == d - weekday(d)

(***************************************************************************)
(* The engine's tables                                                     *)
(***************************************************************************)

\* _forecast_opex's opex_categories
opex_categories ==
    {"Marketing", "Software", "Rent", "Utilities",
     "Professional Services", "Supplies", "Travel"}

\* The adjustments with the best and the worst case exchanged
scenario_adjustments_swapped ==
    [best  |-> [revenue |-> 85,  collections |-> 90,  expenses |-> 105],
     base  |-> [revenue |-> 100, collections |-> 100, expenses |-> 100],
     worst |-> [revenue |-> 115, collections |-> 110, expenses |-> 95]]

\* generate_forecast's scenario_adjustments, in hundredths
scenario_adjustments ==
    [best  |-> [revenue |-> 115, collections |-> 110, expenses |-> 95],
     base  |-> [revenue |-> 100, collections |-> 100, expenses |-> 100],
     worst |-> [revenue |-> 85,  collections |-> 90,  expenses |-> 105]]

\* _calculate_collection_patterns: the same constants on both branches, in
\* hundredths
calculate_collection_patterns(hist) ==
    LET ar_data == SelectSeq(hist, LAMBDA t : t.category = "AR Collections")
    IN  IF Len(ar_data) = 0
        THEN [current |-> 30, week_1 |-> 40, week_2 |-> 20, week_3 |-> 8, week_4 |-> 2]
        ELSE [current |-> 30, week_1 |-> 40, week_2 |-> 20, week_3 |-> 8, week_4 |-> 2]

\* _calculate_payment_patterns
calculate_payment_patterns ==
    [immediate |-> <<"Payroll", "Rent", "Utilities">>,
     net_30    |-> <<"Marketing", "Software", "Professional Services">>,
     net_15    |-> <<"Supplies", "Travel">>]

COGS_MARGIN == 35

DEFAULT_PAYROLL == 50000

DEFAULT_OPEX == 15000

FORECAST_PERIODS == 13

(***************************************************************************)
(* pandas helpers                                                          *)
(***************************************************************************)

RECURSIVE SumAmounts(_)
SumAmounts(rows) ==
    IF rows = << >> THEN 0 ELSE Head(rows).amount + SumAmounts(Tail(rows))

\* Series.mean(): NaN for no rows
Mean(rows) ==
    IF rows = << >> THEN NaN ELSE DivSmall(Num(SumAmounts(rows)), Len(rows))

\* Series.min() of the dates; the caller handles no rows (NaT)
MinDate(rows) ==
    CHOOSE d \in {rows[k].date : k \in DOMAIN rows} :
        \A k \in DOMAIN rows : d <= rows[k].date

\* A range that starts on the first Monday strictly after start_date
date_range_after(start_date) ==
    LET first == start_date + (7 - weekday(start_date))
    IN  [k \in 1..13 |-> first + 7 * (k - 1)]

\* pd.date_range(start=start_date, periods=13, freq='W-MON'): the Mondays on
\* or after start_date
date_range(start_date) ==
    LET first == start_date + ((7 - weekday(start_date)) % 7)
    IN  [k \in 1..FORECAST_PERIODS |-> first + 7 * (k - 1)]

(***************************************************************************)
(* The weekly projections                                                  *)
(*                                                                         *)
(* A value the source binds once and reads several times is handed on as   *)
(* an operator parameter, so each source expression is written once.       *)
(***************************************************************************)

\* x if it is not NaN, else the default
or_default(x, default) == IF ~pd_isna(x) THEN x ELSE Num(default)

\* lines 133-136: the same-week mean, or a quarter of the mean of all Revenue
with_fallback(historical_revenue, hist) ==
    IF pd_isna(historical_revenue)
    THEN DivSmall(Mean(SelectSeq(hist, LAMBDA t : t.category = "Revenue")), 4)
    ELSE historical_revenue

\* lines 126-136
historical_revenue_of(hist, week_of_year) ==
    with_fallback(
        Mean(SelectSeq(hist, LAMBDA t :
                t.category = "Revenue" /\ iso_week(t.date) = week_of_year)),
        hist)

\* lines 139-142: historical_revenue * (1 + 0.05 * (days / 7) / 52); the days
\* since the earliest historical date are NaN (NaT.days) for no rows
apply_growth(historical_revenue, hist, week_start) ==
    IF hist = << >> THEN NaN
    ELSE DivGrowthDen(MulInt(historical_revenue,
                             GrowthDen + (week_start - MinDate(hist))))

\* _forecast_revenue, without a scenario multiplier
forecast_revenue(hist, week_start) ==
    apply_growth(historical_revenue_of(hist, iso_week(week_start)), hist, week_start)

\* The lags and rates _forecast_ar_collections walks through, in order
collection_lags(patterns) ==
    << <<0, patterns.current>>, <<1, patterns.week_1>>, <<2, patterns.week_2>>,
       <<3, patterns.week_3>>, <<4, patterns.week_4>> >>

\* A loop that counts every lag in every week
lag_included_always(week_index, lag_weeks) == TRUE

\* line 156: whether a lag's term is included for the week with this index
lag_included(week_index, lag_weeks) == week_index >= lag_weeks

\* _forecast_ar_collections: the loop over the lags, from the k-th on
RECURSIVE ar_loop(_, _, _, _, _, _)
ar_loop(hist, lags, week_start, week_index, k, collections) ==
    IF k > Len(lags) THEN collections
    ELSE ar_loop(hist, lags, week_start, week_index, k + 1,
             IF lag_included(week_index, lags[k][1])
             THEN Add(collections,
                      Times(forecast_revenue(hist, week_start - 7 * lags[k][1]),
                            lags[k][2], 100))
             ELSE collections)

forecast_ar_collections(hist, patterns, week_start, week_index) ==
    ar_loop(hist, collection_lags(patterns), week_start, week_index, 1, Num(0))

\* A payroll paid in the odd ISO weeks
forecast_payroll_odd_weeks(hist, week_start) ==
    IF iso_week(week_start) % 2 = 1
    THEN or_default(Mean(SelectSeq(hist, LAMBDA t : t.category = "Payroll")),
                    DEFAULT_PAYROLL)
    ELSE Num(0)

\* _forecast_payroll
forecast_payroll(hist, week_start) ==
    IF iso_week(week_start) % 2 = 0
    THEN or_default(Mean(SelectSeq(hist, LAMBDA t : t.category = "Payroll")),
                    DEFAULT_PAYROLL)
    ELSE Num(0)

\* groupby('week')['amount'].sum().mean(): the summed amounts over the
\* number of weeks that have rows
weekly_mean(rows) ==
    IF rows = << >> THEN NaN
    ELSE DivSmall(Num(SumAmounts(rows)),
                  Cardinality({rows[k].week : k \in DOMAIN rows}))

\* _forecast_opex
forecast_opex(hist) ==
    or_default(weekly_mean(SelectSeq(hist, LAMBDA t : t.category \in opex_categories)),
               DEFAULT_OPEX)

(***************************************************************************)
(* generate_forecast                                                       *)
(***************************************************************************)

\* A loop that forgets to carry the balance forward
carry_forward_stale(current_balance, ending_balance) == current_balance

\* line 119: the balance carried into the next week
carry_forward(current_balance, ending_balance) == ending_balance

\* lines 102-117
make_row(i, week_start, scenario, current_balance, revenue, ar_collections, total_inflows, cogs, payroll, operating_expenses, total_outflows, net_cash_flow) ==
    [week_number |-> i + 1,
     week_start |-> week_start,
     week_end |-> week_start + 6,
     opening_balance |-> current_balance,
     revenue |-> revenue,
     ar_collections |-> ar_collections,
     total_inflows |-> total_inflows,
     cogs |-> cogs,
     payroll |-> payroll,
     operating_expenses |-> operating_expenses,
     total_outflows |-> total_outflows,
     net_cash_flow |-> net_cash_flow,
     ending_balance |-> Add(current_balance, net_cash_flow),
     scenario |-> scenario]

\* lines 98-100
row_net(i, week_start, scenario, current_balance, revenue, ar_collections, total_inflows, cogs, payroll, operating_expenses, total_outflows) ==
    make_row(i, week_start, scenario, current_balance, revenue, ar_collections,
             total_inflows, cogs, payroll, operating_expenses, total_outflows,
             Sub(total_inflows, total_outflows))

\* Totals that leave payroll out of the outflows
row_totals_no_payroll(i, week_start, scenario, current_balance, revenue, ar_collections, cogs, payroll, operating_expenses) ==
    row_net(i, week_start, scenario, current_balance, revenue, ar_collections,
            Add(revenue, ar_collections), cogs, payroll, operating_expenses,
            Add(cogs, operating_expenses))

\* lines 90-96
row_totals(i, week_start, scenario, current_balance, revenue, ar_collections, cogs, payroll, operating_expenses) ==
    row_net(i, week_start, scenario, current_balance, revenue, ar_collections,
            Add(revenue, ar_collections), cogs, payroll, operating_expenses,
            Add(Add(cogs, payroll), operating_expenses))

\* line 93
row_cogs(i, week_start, scenario, current_balance, revenue, ar_collections, payroll, operating_expenses) ==
    row_totals(i, week_start, scenario, current_balance, revenue, ar_collections,
               Times(revenue, COGS_MARGIN, 100), payroll, operating_expenses)

\* One pass of the loop body (lines 85-117): the row of the week with index i
forecast_row(hist, patterns, adj, scenario, i, week_start, current_balance) ==
    row_cogs(i, week_start, scenario, current_balance,
        Times(forecast_revenue(hist, week_start), adj.revenue, 100),
        Times(forecast_ar_collections(hist, patterns, week_start, i),
              adj.collections, 100),
        Times(forecast_payroll(hist, week_start), adj.expenses, 100),
        Times(forecast_opex(hist), adj.expenses, 100))

\* The loop over the weeks (line 84), from index i on
RECURSIVE forecast_loop(_, _, _, _, _, _, _, _)
RECURSIVE loop_append(_, _, _, _, _, _, _, _, _)
forecast_loop(hist, patterns, adj, scenario, weeks, i, current_balance, forecast) ==
    IF i >= Len(weeks) THEN forecast
    ELSE loop_append(hist, patterns, adj, scenario, weeks, i, current_balance, forecast,
             forecast_row(hist, patterns, adj, scenario, i, weeks[i + 1],
                          current_balance))

loop_append(hist, patterns, adj, scenario, weeks, i, current_balance, forecast, row) ==
    forecast_loop(hist, patterns, adj, scenario, weeks, i + 1,
                  carry_forward(current_balance, row.ending_balance),
                  Append(forecast, row))

\* generate_forecast for a scenario of scenario_adjustments
generate_forecast(hist, patterns, start_date, opening_balance, scenario) ==
    forecast_loop(hist, patterns, scenario_adjustments[scenario], scenario,
                  date_range(start_date), 0, Num(opening_balance), << >>)

(***************************************************************************)
(* calculate_runway and sensitivity_analysis                               *)
(***************************************************************************)

\* forecast_df[forecast_df['ending_balance'] < burn_threshold]
below_threshold(forecast_df, burn_threshold) ==
    SelectSeq(forecast_df, LAMBDA row : Lt(row.ending_balance, Num(burn_threshold)))

\* lines 203-207, given the rows below the threshold
runway_of(below) ==
    IF Len(below) = 0
    THEN [weeks |-> 13, label |-> "Beyond forecast period"]
    ELSE [weeks |-> below[1].week_number,
          label |-> "Week " \o ToString(below[1].week_number)]

calculate_runway(forecast_df, burn_threshold) ==
    runway_of(below_threshold(forecast_df, burn_threshold))

\* The changes sensitivity_analysis tests, in percent
SENSITIVITY_CHANGES == << -20, -10, 0, 10, 20 >>

\* base_ending * (1 + change * elasticity), the elasticity in tenths
adjust_ending(base_ending, change, elasticity10) ==
    DivSmall(Times(base_ending, 1000 + change * elasticity10, 100), 10)

\* (adjusted_ending / base_ending - 1) * 100, in percent.  adjusted_ending is
\* base_ending * (1000 + change * elasticity10) / 1000; the quotient of the
\* two numpy float64 is nan when either is NaN and when both are 0.
variance_pct(base_ending, change, elasticity10) ==
    IF ~IsNum(base_ending) \/ IsZero(base_ending) THEN NaN
    ELSE DivSmall(Num(change * elasticity10), 10)

\* f"{change*100:+.0f}%"
format_change(change) ==
    (IF change < 0 THEN "-" ELSE "+")
        \o ToString(IF change < 0 THEN -change ELSE change) \o "%"

sensitivity_row(variable, base_ending, change, elasticity10) ==
    LET adjusted_ending == adjust_ending(base_ending, change, elasticity10)
    IN  [variable |-> variable,
         change |-> format_change(change),
         ending_balance |-> adjusted_ending,
         variance_from_base |-> Sub(adjusted_ending, base_ending),
         variance_pct |-> variance_pct(base_ending, change, elasticity10)]

\* The rows sensitivity_analysis builds from the base forecast
sensitivity_analysis(base_forecast) ==
    LET base_ending == base_forecast[Len(base_forecast)].ending_balance
    IN  [k \in 1..Len(SENSITIVITY_CHANGES) |->
            sensitivity_row("Revenue", base_ending, SENSITIVITY_CHANGES[k], 15)]
        \o
        [k \in 1..Len(SENSITIVITY_CHANGES) |->
            sensitivity_row("Collection Rate", base_ending, SENSITIVITY_CHANGES[k], 8)]


(***************************************************************************)
(* Bounded inputs                                                          *)
(***************************************************************************)

\* The rows a caller's transaction table is drawn from (payment_terms, which
\* nothing reads, is left out).  2025-11-05 is a Wednesday of ISO week 45,
\* 2025-11-10 the Monday of ISO week 46, 2026-05-04 the Monday of ISO week 19
\* and 2026-05-06 the Wednesday of that week.
Transactions ==
    << [date |-> 739560, category |-> "Revenue",        amount |-> 100000],
       [date |-> 739560, category |-> "Revenue",        amount |-> 0],
       [date |-> 739565, category |-> "Revenue",        amount |-> 100000],
       [date |-> 739740, category |-> "Revenue",        amount |-> 100000],
       [date |-> 739742, category |-> "Revenue",        amount |-> -100000],
       [date |-> 739560, category |-> "AR Collections", amount |-> 90000],
       [date |-> 739740, category |-> "Payroll",        amount |-> 100000],
       [date |-> 739560, category |-> "Payroll",        amount |-> 60000],
       [date |-> 739560, category |-> "Rent",           amount |-> 12000],
       [date |-> 739740, category |-> "Marketing",      amount |-> 8000] >>

\* The most rows a caller's table has
MaxHist == 2

\* The rows of Transactions with their index in picked, in Transactions' order
RECURSIVE Pick(_, _)
Pick(picked, k) ==
    IF k > Len(Transactions) THEN << >>
    ELSE (IF k \in picked THEN << Transactions[k] >> ELSE << >>) \o Pick(picked, k + 1)

CallerTables ==
    { Pick(picked, 1) : picked \in
        { S \in SUBSET (1..Len(Transactions)) : Cardinality(S) <= MaxHist } }

\* 2026-11-02 is a Monday (ISO week 45 of 2026, a year of 53 ISO weeks),
\* 2026-11-03 the Tuesday after it.
StartDates == {739922, 739923}

OpeningBalances == {495000, 500000}

\* The labels a caller passes: the three scenarios and one unknown label
ScenarioLabels == {"best", "base", "worst", "optimistic"}

BurnThresholds == {0, 15000, 50000}

(***************************************************************************)
(* State                                                                   *)
(***************************************************************************)

VARIABLES
    pc,                   \* "new" before CashFlowForecaster(...), then "ready"
    caller_data,          \* the caller's historical_data table
    historical,           \* self.historical
    collection_patterns,  \* self.collection_patterns
    payment_patterns,     \* self.payment_patterns
    result,               \* what the last call returned or raised, until the
                          \* caller moves on
    held                  \* a generate_forecast outcome the caller has kept

vars == <<pc, caller_data, historical, collection_patterns, payment_patterns,
          result, held>>

engine == <<historical, collection_patterns, payment_patterns>>

None == [op |-> "none"]

Init ==
    /\ pc = "new"
    /\ caller_data \in CallerTables
    /\ historical = << >>
    /\ collection_patterns = << >>
    /\ payment_patterns = << >>
    /\ result = None
    /\ held = None

\* __init__: historical_data.copy(), the parsed date and the 'week' column
load_historical(historical_data) ==
    [k \in DOMAIN historical_data |->
        [date |-> historical_data[k].date,
         category |-> historical_data[k].category,
         amount |-> historical_data[k].amount,
         week |-> to_period_W(historical_data[k].date)]]

Construct ==
    /\ pc = "new"
    /\ pc' = "ready"
    /\ historical' = load_historical(caller_data)
    /\ collection_patterns' = calculate_collection_patterns(load_historical(caller_data))
    /\ payment_patterns' = calculate_payment_patterns
    /\ UNCHANGED <<caller_data, result, held>>

\* A call that takes an unknown label for 'base'
forecast_outcome_lenient(hist, patterns, start_date, opening_balance, scenario) ==
    [outcome |-> "returned",
     table |-> generate_forecast(hist, patterns, start_date, opening_balance,
                   IF scenario \in DOMAIN scenario_adjustments
                   THEN scenario ELSE "base")]

\* A call of generate_forecast: the table, or the KeyError of line 81 before
\* any row is built
forecast_outcome(hist, patterns, start_date, opening_balance, scenario) ==
    IF scenario \in DOMAIN scenario_adjustments
    THEN [outcome |-> "returned",
          table |-> generate_forecast(hist, patterns, start_date, opening_balance,
                                      scenario)]
    ELSE [outcome |-> "KeyError", table |-> << >>]

\* What the caller gets from a generate_forecast call
call_record(start_date, opening_balance, scenario, out) ==
    [op |-> "generate_forecast",
     start_date |-> start_date,
     opening_balance |-> opening_balance,
     scenario |-> scenario,
     outcome |-> out.outcome,
     table |-> out.table]

\* A generate_forecast that consumes the last row of the engine's history
GenerateForecast_consuming(start_date, opening_balance, scenario) ==
    /\ pc = "ready"
    /\ result = None
    /\ result' = call_record(start_date, opening_balance, scenario,
                    forecast_outcome(historical, collection_patterns, start_date,
                                     opening_balance, scenario))
    /\ historical' = SubSeq(historical, 1, Len(historical) - 1)
    /\ UNCHANGED <<pc, caller_data, collection_patterns, payment_patterns, held>>

\* generate_forecast as the caller sees it: its outcome, the engine as it was
GenerateForecast(start_date, opening_balance, scenario) ==
    /\ pc = "ready"
    /\ result = None
    /\ result' = call_record(start_date, opening_balance, scenario,
                    forecast_outcome(historical, collection_patterns, start_date,
                                     opening_balance, scenario))
    /\ UNCHANGED <<pc, caller_data, historical, collection_patterns,
                   payment_patterns, held>>

\* generate_scenario_comparison: one generate_forecast per scenario
scenario_comparison(hist, patterns, start_date, opening_balance) ==
    [scenario \in {"best", "base", "worst"} |->
        forecast_outcome(hist, patterns, start_date, opening_balance, scenario).table]

\* A comparison whose runs share the engine's history and use it up: the
\* base and worst cases are forecast from what the best case left
GenerateScenarioComparison_sharing(start_date, opening_balance) ==
    /\ pc = "ready"
    /\ result = None
    /\ result' = [op |-> "generate_scenario_comparison",
                  start_date |-> start_date,
                  opening_balance |-> opening_balance,
                  outcome |-> "returned",
                  scenarios |->
                      [scenario \in {"best", "base", "worst"} |->
                          forecast_outcome(
                              IF scenario = "best" THEN historical
                              ELSE SubSeq(historical, 1, Len(historical) - 1),
                              collection_patterns, start_date, opening_balance,
                              scenario).table]]
    /\ historical' = SubSeq(historical, 1, Len(historical) - 1)
    /\ UNCHANGED <<pc, caller_data, collection_patterns, payment_patterns, held>>

GenerateScenarioComparison(start_date, opening_balance) ==
    /\ pc = "ready"
    /\ result = None
    /\ result' = [op |-> "generate_scenario_comparison",
                  start_date |-> start_date,
                  opening_balance |-> opening_balance,
                  outcome |-> "returned",
                  scenarios |-> scenario_comparison(historical, collection_patterns,
                                                    start_date, opening_balance)]
    /\ UNCHANGED <<pc, caller_data, historical, collection_patterns,
                   payment_patterns, held>>

\* calculate_runway on the table generate_forecast has just returned
CalculateRunway(burn_threshold) ==
    /\ pc = "ready"
    /\ result.op = "generate_forecast"
    /\ result.outcome = "returned"
    /\ result' = [op |-> "calculate_runway",
                  forecast_df |-> result.table,
                  burn_threshold |-> burn_threshold,
                  outcome |-> "returned",
                  runway |-> calculate_runway(result.table, burn_threshold)]
    /\ UNCHANGED <<pc, caller_data, historical, collection_patterns,
                   payment_patterns, held>>

\* sensitivity_analysis: the base forecast (line 211), then the ten rows.  The
\* five further generate_forecast calls of line 218 build tables nothing reads.
SensitivityAnalysis(start_date, opening_balance) ==
    /\ pc = "ready"
    /\ result = None
    /\ result' = [op |-> "sensitivity_analysis",
                  start_date |-> start_date,
                  opening_balance |-> opening_balance,
                  outcome |-> "returned",
                  rows |-> sensitivity_analysis(
                              forecast_outcome(historical, collection_patterns,
                                  start_date, opening_balance, "base").table)]
    /\ UNCHANGED <<pc, caller_data, historical, collection_patterns,
                   payment_patterns, held>>

\* The caller is done with what the last call returned or raised
CallerMovesOn ==
    /\ result # None
    /\ result' = None
    /\ UNCHANGED <<pc, caller_data, historical, collection_patterns,
                   payment_patterns, held>>

\* The caller keeps the outcome of a generate_forecast call for later
CallerKeeps ==
    /\ result # None
    /\ result.op = "generate_forecast"
    /\ held = None
    /\ held' = result
    /\ result' = None
    /\ UNCHANGED <<pc, caller_data, historical, collection_patterns,
                   payment_patterns>>

Next ==
    \/ Construct
    \/ \E start_date \in StartDates, opening_balance \in OpeningBalances,
          scenario \in ScenarioLabels :
            GenerateForecast(start_date, opening_balance, scenario)
    \/ \E start_date \in StartDates, opening_balance \in OpeningBalances :
            GenerateScenarioComparison(start_date, opening_balance)
    \/ \E burn_threshold \in BurnThresholds : CalculateRunway(burn_threshold)
    \/ \E start_date \in StartDates, opening_balance \in OpeningBalances :
            SensitivityAnalysis(start_date, opening_balance)
    \/ CallerMovesOn

Spec == Init /\ [][Next]_vars

\* The same engine with a caller that keeps one generate_forecast outcome
\* while it goes on calling, over the tables of at most one row
KeptTables == { t \in CallerTables : Len(t) <= 1 }

InitKeeping == Init /\ caller_data \in KeptTables

NextKeeping == Next \/ CallerKeeps

SpecKeeping == InitKeeping /\ [][NextKeeping]_vars


(***************************************************************************)
(* Properties                                                              *)
(*                                                                         *)
(* Two amounts are equal when they are the same value; NaN is one value    *)
(* (as DataFrame.equals has it), ordered with nothing (Lt, Ge).            *)
(***************************************************************************)

ValidScenarios == {"base", "best", "worst"}

\* A table generate_forecast has just returned to the caller
Returned ==
    /\ result.op = "generate_forecast"
    /\ result.outcome = "returned"

\* No amount of the state is the product of an inexact division: the model's
\* fixed-point arithmetic is exact on every input it is run on.
ExactRow(row) ==
    \A f \in {"opening_balance", "revenue", "ar_collections", "total_inflows",
              "cogs", "payroll", "operating_expenses", "total_outflows",
              "net_cash_flow", "ending_balance"} : row[f].kind # "inexact"

ExactTable(table) == \A k \in DOMAIN table : ExactRow(table[k])

ModelArithmeticExact ==
    /\ result.op = "generate_forecast" => ExactTable(result.table)
    /\ result.op = "generate_scenario_comparison" =>
          \A sc \in ValidScenarios : ExactTable(result.scenarios[sc])
    /\ result.op = "sensitivity_analysis" =>
          \A k \in DOMAIN result.rows :
              /\ result.rows[k].ending_balance.kind # "inexact"
              /\ result.rows[k].variance_from_base.kind # "inexact"
              /\ result.rows[k].variance_pct.kind # "inexact"

\* C1: in the table generate_forecast returns, row 1's opening_balance is the
\* caller's opening_balance and every later row's opening_balance is the row
\* before's ending_balance.
C1_BalanceContinuity ==
    Returned =>
        /\ result.table[1].opening_balance = Num(result.opening_balance)
        /\ \A i \in 2..13 :
              result.table[i].opening_balance = result.table[i - 1].ending_balance

\* A returned table whose balance moves from week to week
C1_Witness ==
    /\ Returned
    /\ IsNum(result.table[13].ending_balance)
    /\ \A i \in 2..13 :
          result.table[i].opening_balance # result.table[i - 1].opening_balance

\* C2: every row of the table generate_forecast returns satisfies the four
\* accounting identities.
C2_AccountingIdentities ==
    Returned =>
        \A i \in DOMAIN result.table :
            LET row == result.table[i]
            IN  /\ row.total_inflows = Add(row.revenue, row.ar_collections)
                /\ row.total_outflows =
                       Add(Add(row.cogs, row.payroll), row.operating_expenses)
                /\ row.net_cash_flow = Sub(row.total_inflows, row.total_outflows)
                /\ row.ending_balance = Add(row.opening_balance, row.net_cash_flow)

\* A returned table with a row in which every term of the identities is a
\* number other than zero
C2_Witness ==
    /\ Returned
    /\ \E i \in DOMAIN result.table :
          \A f \in {"revenue", "ar_collections", "cogs", "payroll",
                    "operating_expenses", "net_cash_flow"} :
              IsNum(result.table[i][f]) /\ ~IsZero(result.table[i][f])

\* C3: generate_forecast with a valid scenario returns exactly 13 rows, with
\* week_number 1..13 in row order, every week_start a Monday, the first the
\* earliest Monday on or after start_date, each later one 7 days after the
\* one before, week_end = week_start + 6 days and the requested scenario in
\* every row.
C3_ThirteenMondayWeeks ==
    /\ (result.op = "generate_forecast" /\ result.scenario \in ValidScenarios)
          => result.outcome = "returned"
    /\ Returned =>
        /\ Len(result.table) = 13
        /\ \A i \in 1..13 :
              /\ result.table[i].week_number = i
              /\ weekday(result.table[i].week_start) = 0
              /\ result.table[i].week_end = result.table[i].week_start + 6
              /\ result.table[i].scenario = result.scenario
        /\ result.table[1].week_start >= result.start_date
        /\ result.table[1].week_start < result.start_date + 7
        /\ weekday(result.start_date) = 0 =>
              result.table[1].week_start = result.start_date
        /\ \A i \in 2..13 :
              result.table[i].week_start = result.table[i - 1].week_start + 7

\* A table returned for a start_date that is a Monday, starting on it
C3_Witness ==
    /\ Returned
    /\ weekday(result.start_date) = 0
    /\ result.table[1].week_start = result.start_date
    /\ result.table[13].week_number = 13

\* C4: generate_forecast with a label other than 'base', 'best', 'worst' ends
\* in an error and returns no row, it leaves the engine's state as it was,
\* and a later call with a valid label returns what the engine as constructed
\* returns for it.
C4_InvalidScenarioFails ==
    [][ /\ (result'.op = "generate_forecast" /\ result'.scenario \notin ValidScenarios)
            => /\ result'.outcome = "KeyError"
               /\ result'.table = << >>
               /\ engine' = engine
               /\ caller_data' = caller_data
        /\ (/\ held.op = "generate_forecast"
            /\ held.outcome = "KeyError"
            /\ result'.op = "generate_forecast"
            /\ result'.scenario \in ValidScenarios)
            => /\ result'.outcome = "returned"
               /\ Len(result'.table) = 13
               /\ result'.table =
                     generate_forecast(load_historical(caller_data),
                         calculate_collection_patterns(load_historical(caller_data)),
                         result'.start_date, result'.opening_balance,
                         result'.scenario) ]_vars

\* A valid call has returned its 13 rows after an invalid one failed
C4_Witness ==
    /\ held.op = "generate_forecast"
    /\ held.outcome = "KeyError"
    /\ held.table = << >>
    /\ Returned
    /\ Len(result.table) = 13
    /\ IsNum(result.table[13].ending_balance)

\* C5: calculate_runway returns (13, "Beyond forecast period") exactly when
\* every one of the 13 rows has ending_balance >= threshold; otherwise it
\* returns the week_number n of the first row whose ending_balance is below
\* the threshold, with the label "Week n".
C5_RunwayFirstBreach ==
    result.op = "calculate_runway" =>
        LET df == result.forecast_df
            threshold == Num(result.burn_threshold)
            beyond == /\ result.runway.weeks = 13
                      /\ result.runway.label = "Beyond forecast period"
        IN  /\ beyond <=> \A k \in 1..13 : Ge(df[k].ending_balance, threshold)
            /\ ~beyond =>
                  \E n \in 1..13 :
                      /\ Lt(df[n].ending_balance, threshold)
                      /\ \A k \in 1..(n - 1) : ~Lt(df[k].ending_balance, threshold)
                      /\ result.runway.weeks = n
                      /\ result.runway.label = "Week " \o ToString(n)

\* C6: sensitivity_analysis always returns exactly 10 rows, five 'Revenue'
\* rows for the changes -20%, -10%, 0%, +10%, +20% and then five 'Collection
\* Rate' rows for the same changes, and the 0%-change row of each group has
\* variance_from_base = 0.
C6_TenSensitivityRows ==
    result.op = "sensitivity_analysis" =>
        /\ Len(result.rows) = 10
        /\ \A k \in 1..5 :
              /\ result.rows[k].variable = "Revenue"
              /\ result.rows[k + 5].variable = "Collection Rate"
              /\ result.rows[k].change = << "-20%", "-10%", "+0%", "+10%", "+20%" >>[k]
              /\ result.rows[k + 5].change = result.rows[k].change
        /\ result.rows[3].variance_from_base = Num(0)
        /\ result.rows[8].variance_from_base = Num(0)

\* C7: when every revenue and ar_collections figure of the three forecasts of
\* one generate_scenario_comparison is strictly positive and payroll and
\* operating expenses are non-negative, best ending_balance >= base
\* ending_balance >= worst ending_balance in every week 1..13.
C7_ScenarioOrdering ==
    result.op = "generate_scenario_comparison" =>
        LET best == result.scenarios["best"]
            base == result.scenarios["base"]
            worst == result.scenarios["worst"]
        IN  (\A sc \in {"best", "base", "worst"} : \A k \in 1..13 :
                /\ Gt(result.scenarios[sc][k].revenue, Num(0))
                /\ Gt(result.scenarios[sc][k].ar_collections, Num(0))
                /\ Ge(result.scenarios[sc][k].payroll, Num(0))
                /\ Ge(result.scenarios[sc][k].operating_expenses, Num(0)))
            => \A k \in 1..13 :
                /\ Ge(best[k].ending_balance, base[k].ending_balance)
                /\ Ge(base[k].ending_balance, worst[k].ending_balance)

\* A comparison with positive revenue and collections throughout, in which
\* the three cases end week 13 strictly apart
C7_Witness ==
    /\ result.op = "generate_scenario_comparison"
    /\ \A sc \in {"best", "base", "worst"} : \A k \in 1..13 :
          /\ Gt(result.scenarios[sc][k].revenue, Num(0))
          /\ Gt(result.scenarios[sc][k].ar_collections, Num(0))
          /\ Ge(result.scenarios[sc][k].payroll, Num(0))
          /\ Ge(result.scenarios[sc][k].operating_expenses, Num(0))
    /\ Gt(result.scenarios["best"][13].ending_balance,
          result.scenarios["base"][13].ending_balance)
    /\ Gt(result.scenarios["base"][13].ending_balance,
          result.scenarios["worst"][13].ending_balance)

\* C8: a generate_forecast call returns what an earlier call on the same
\* engine with the same start_date, opening_balance and scenario returned,
\* equal in every field of every row, whatever the engine was asked in
\* between.
C8_Idempotent ==
    (/\ held.op = "generate_forecast"
     /\ result.op = "generate_forecast"
     /\ result.start_date = held.start_date
     /\ result.opening_balance = held.opening_balance
     /\ result.scenario = held.scenario)
    => /\ result.outcome = held.outcome
       /\ Len(result.table) = Len(held.table)
       /\ \A k \in DOMAIN held.table :
             \A f \in DOMAIN held.table[k] : result.table[k][f] = held.table[k][f]

\* The second of two calls with the same arguments has returned a table of
\* numbers, the first one's table being kept
C8_Witness ==
    /\ held.op = "generate_forecast"
    /\ held.outcome = "returned"
    /\ Returned
    /\ result.start_date = held.start_date
    /\ result.opening_balance = held.opening_balance
    /\ result.scenario = held.scenario
    /\ IsNum(result.table[13].ending_balance)
    /\ ~IsZero(result.table[13].revenue)

\* C9: ar_collections of the row with 0-based index i is the sum over the
\* lags 0..min(i, 4) of r(week_start - lag weeks) * pattern[lag], times the
\* scenario's collections multiplier, r being the revenue estimate before the
\* scenario's revenue multiplier and pattern = (0.30, 0.40, 0.20, 0.08, 0.02).
C9_LaggedCollections ==
    Returned =>
        \A k \in 1..13 :
            LET i == k - 1
                week_start == result.table[k].week_start
                pattern == << 30, 40, 20, 8, 2 >>
                term(lag) == Times(forecast_revenue(historical, week_start - 7 * lag),
                                   pattern[lag + 1], 100)
                sum0 == term(0)
                sum1 == Add(sum0, term(1))
                sum2 == Add(sum1, term(2))
                sum3 == Add(sum2, term(3))
                sum4 == Add(sum3, term(4))
                total == CASE i = 0 -> sum0
                           [] i = 1 -> sum1
                           [] i = 2 -> sum2
                           [] i = 3 -> sum3
                           [] OTHER -> sum4
            IN  result.table[k].ar_collections =
                    Times(total, scenario_adjustments[result.scenario].collections, 100)

\* A worst-case table of numbers whose week 1 collects the lag-0 term alone
\* and whose week 5 collects more than its own lag-0 term
C9_Witness ==
    /\ Returned
    /\ result.scenario = "worst"
    /\ IsNum(result.table[1].ar_collections)
    /\ ~IsZero(result.table[1].ar_collections)
    /\ result.table[1].ar_collections =
           Times(Times(forecast_revenue(historical, result.table[1].week_start),
                       30, 100), 90, 100)
    /\ Gt(result.table[5].ar_collections,
          Times(Times(forecast_revenue(historical, result.table[5].week_start),
                      30, 100), 90, 100))

\* C10: with a history of one Revenue transaction of 100,000 in every week and
\* no other row, opening_balance = 500,000 and start_date a Monday, week 1 of
\* the base case has revenue = 100,000 * (1 + 0.05 * weeks / 52), weeks being
\* the weeks from the earliest historical date to week 1's start, whether or
\* not the history has a Revenue row in week 1's ISO week.
C10_ConstantWeeklyRevenue ==
    (/\ Returned
     /\ result.scenario = "base"
     /\ result.opening_balance = 500000
     /\ weekday(result.start_date) = 0
     /\ historical # << >>
     /\ \A k \in DOMAIN historical :
           /\ historical[k].category = "Revenue"
           /\ historical[k].amount = 100000
           /\ \A j \in DOMAIN historical :
                 j # k => historical[j].week # historical[k].week
           /\ \/ historical[k].week = to_period_W(MinDate(historical))
              \/ \E j \in DOMAIN historical :
                    historical[j].week = historical[k].week - 7)
    => result.table[1].revenue =
           DivGrowthDen(MulInt(Num(100000),
               GrowthDen + (result.table[1].week_start - MinDate(historical))))
\* C11: construction and the four operations never change the caller's
\* transaction table; once the engine is constructed no operation changes its
\* historical records, collection pattern or payment-pattern groups; and
\* generate_scenario_comparison returns a mapping with exactly the keys best,
\* base and worst, each value equal to the table a standalone generate_forecast
\* call with that scenario, start_date and opening_balance returned.
C11_FrameAndComparison ==
    [][ /\ caller_data' = caller_data
        /\ pc = "ready" => engine' = engine
        /\ (result'.op = "generate_scenario_comparison" /\ result' # result) =>
              /\ DOMAIN result'.scenarios = {"best", "base", "worst"}
              /\ (/\ held.op = "generate_forecast"
                  /\ held.outcome = "returned"
                  /\ held.start_date = result'.start_date
                  /\ held.opening_balance = result'.opening_balance)
                  => result'.scenarios[held.scenario] = held.table ]_vars

\* A comparison has returned on an engine that still holds its own copy of
\* the caller's rows (with the week column the caller's table lacks), and its
\* worst case is the table of numbers a standalone call returned before
C11_Witness ==
    /\ result.op = "generate_scenario_comparison"
    /\ caller_data # << >>
    /\ historical = load_historical(caller_data)
    /\ historical # caller_data
    /\ held.op = "generate_forecast"
    /\ held.outcome = "returned"
    /\ held.scenario = "worst"
    /\ held.start_date = result.start_date
    /\ held.opening_balance = result.opening_balance
    /\ result.scenarios["worst"] = held.table
    /\ result.scenarios["worst"] # result.scenarios["base"]
    /\ IsNum(held.table[13].ending_balance)
\* C12: in every row of generate_forecast payroll is 0 when the ISO week of
\* week_start is odd; when it is even, payroll is the mean of the historical
\* Payroll amounts times the scenario's expense multiplier, or 50000 times the
\* multiplier when the history has no Payroll row; it is a number either way.
C12_PayrollParity ==
    Returned =>
        \A k \in 1..13 :
            LET payroll == result.table[k].payroll
                payroll_rows == SelectSeq(historical, LAMBDA t : t.category = "Payroll")
                expenses == scenario_adjustments[result.scenario].expenses
            IN  /\ IsNum(payroll)
                /\ iso_week(result.table[k].week_start) % 2 = 1 => payroll = Num(0)
                /\ (iso_week(result.table[k].week_start) % 2 = 0
                        /\ Len(payroll_rows) = 0)
                    => payroll = Times(Num(50000), expenses, 100)
                /\ (iso_week(result.table[k].week_start) % 2 = 0
                        /\ Len(payroll_rows) > 0)
                    => MulSmall(payroll, Len(payroll_rows)) =
                           Times(Num(SumAmounts(payroll_rows)), expenses, 100)

\* A worst-case table from Monday 2026-11-02 over a history with Payroll rows
\* of 100,000 and 60,000: nothing in ISO week 45, 80,000 * 1.05 in week 46,
\* and nothing in week 53 of 2026 nor in week 1 of 2027 that follows it
C12_Witness ==
    /\ Returned
    /\ result.scenario = "worst"
    /\ result.start_date = 739922
    /\ Len(SelectSeq(historical, LAMBDA t : t.category = "Payroll")) = 2
    /\ result.table[1].payroll = Num(0)
    /\ result.table[2].payroll = Num(84000)
    /\ result.table[9].payroll = Num(0)
    /\ result.table[10].payroll = Num(0)
    /\ result.table[11].payroll = Num(84000)

====
